---- MODULE Spec2Model ----
(***************************************************************************)
(* A model of slack_exporter.py: the two per-run caches (user_cache,       *)
(* message_cache), the link rewriter parse_links, the file-name            *)
(* sanitizers of the save routines, and the control flow of main with the  *)
(* remote Slack API as a nondeterministic collaborator.                    *)
(*                                                                         *)
(* Text is a sequence of one-character strings, so that the regular        *)
(* expression and the character filters are computed character by          *)
(* character as the Python code computes them.                             *)
(***************************************************************************)
EXTENDS Integers, Sequences, FiniteSets, TLC

VARIABLES
    \* ---- link rewriter (parse_links) ----
    text,           \* the input of parse_links
    mode,           \* output_type passed to parse_links: "txt" | "html" | "none" before the call
    out,            \* the string parse_links returned
    subs,           \* the calls of replace_link made by link_pattern.sub, in order
    \* ---- sanitizers ----
    name_in,        \* a conversation or workspace name
    name_kind,      \* "none" | "txt" | "html" | "folder": which routine has computed name_out
    name_out,       \* the file name (without directory) or the folder computed from name_in
    \* ---- caches, used alone (arbitrary call sequences) and by main ----
    user_cache,     \* user id -> user name
    message_cache,  \* thread ts -> list of replies
    calls,          \* number of remote calls issued so far, per operation and key
    first_ret,      \* key -> the value the first call for the key returned
    last,           \* the last call of get_user_info / fetch_replies and what it returned
    \* ---- main ----
    pc,             \* position of main: "idle" | "start" | "scan" | "export" | "save" | "done" | "crashed"
    tokens,         \* the credentials of the environment, in order (get_slack_tokens)
    channel_arg,    \* args.channel_name_or_id
    output_type,    \* args.output_type
    idx,            \* index of the loop in progress (1-based)
    found_channels, \* list of (client, conversation, workspace_name)
    messages,       \* the messages of the export in progress that are still to be written
    cur_file,       \* the path of the file being written, <<>> when none is open
    files,          \* path -> the export (index in found_channels) that opened it last
    opens,          \* the number of files the save routines opened for writing
    last_export,    \* the export main started last: whether it has no message, the save routine, folder, path
    printed,        \* the diagnostics main printed
    invoked,        \* the remote operations called so far in the run
    failed          \* per function: what it returned on the calls of the last step whose remote operation failed

linkVars  == <<text, mode, out, subs>>
nameVars  == <<name_in, name_kind, name_out>>
cacheVars == <<user_cache, message_cache, calls, first_ret, last>>
mainVars  == <<pc, tokens, channel_arg, output_type, idx, found_channels, messages,
               cur_file, files, opens, last_export, printed, invoked, failed>>
vars == <<linkVars, nameVars, cacheVars, mainVars>>

\* Python's None where a text is expected: no text, which is a sequence of
\* one-character strings, equals it.
None == <<"None">>

(***************************************************************************)
(* Text helpers                                                            *)
(***************************************************************************)
RECURSIVE Flatten(_)
Flatten(ss) == IF ss = <<>> THEN <<>> ELSE Head(ss) \o Flatten(Tail(ss))

\* text[a..b] as Python's text[a-1:b]; empty when b < a
Slice(s, a, b) == IF b < a THEN <<>> ELSE SubSeq(s, a, b)

\* s.startswith(p) at 1-based position i
StartsWithAt(s, i, p) ==
    /\ i + Len(p) - 1 <= Len(s)
    /\ \A k \in 1..Len(p) : s[i + k - 1] = p[k]

\* The first position >= i whose character is in stop, Len(s)+1 when there is none:
\* where a greedy negated character class [^...] stops.
RECURSIVE ScanTo(_, _, _)
ScanTo(s, i, stop) ==
    IF i > Len(s) THEN Len(s) + 1
    ELSE IF s[i] \in stop THEN i
    ELSE ScanTo(s, i + 1, stop)

\* ------------------------------------------------------------------------
\* link_pattern = re.compile(r'<(http[s]?://[^|>]+)(?:\|([^>]*))?>')
\* ------------------------------------------------------------------------
LT == "<"
GT == ">"
BAR == "|"
HTTP == <<"h", "t", "t", "p">>
COLON_SLASHES == <<":", "/", "/">>

NoMatch == [matched |-> FALSE]

\* link_pattern.match(text, i): the regex engine at start position i.  Every greedy
\* class is followed by a character outside the class, so giving characters back
\* (backtracking) never leads to a match and the greedy attempt decides.
MatchAt(s, i) ==
    IF ~(i <= Len(s) /\ s[i] = LT /\ StartsWithAt(s, i + 1, HTTP)) THEN NoMatch
    ELSE
      LET p == IF i + 5 <= Len(s) /\ s[i + 5] = "s" THEN i + 6 ELSE i + 5
      IN IF ~StartsWithAt(s, p, COLON_SLASHES) THEN NoMatch
         ELSE
           LET q == p + 3
               e == ScanTo(s, q, {BAR, GT})
           IN IF e = q \/ e > Len(s) THEN NoMatch
              ELSE IF s[e] = GT
                   THEN [matched |-> TRUE, start |-> i, end |-> e,
                         url |-> Slice(s, i + 1, e - 1), label |-> None]
              ELSE
                LET f == ScanTo(s, e + 1, {GT})
                IN IF f > Len(s) THEN NoMatch
                   ELSE [matched |-> TRUE, start |-> i, end |-> f,
                         url |-> Slice(s, i + 1, e - 1),
                         label |-> Slice(s, e + 1, f - 1)]

A_OPEN == <<"<", "a", " ", "h", "r", "e", "f", "=", "\"">>
A_MID == <<"\"", ">">>
A_CLOSE == <<"<", "/", "a", ">">>

\* replace_link with the url and the display text exchanged
replace_link_swapped(url, label, output) ==
    LET display_text == IF label = None \/ label = <<>> THEN url ELSE label
    IN IF output = "html"
       THEN A_OPEN \o display_text \o A_MID \o url \o A_CLOSE
       ELSE url \o <<" ", "(">> \o display_text \o <<")">>

\* replace_link(match) of parse_links: group(2) is None (no '|') or a string;
\* an empty string is falsy, so the url is displayed.
replace_link(url, label, output) ==
    LET display_text == IF label = None \/ label = <<>> THEN url ELSE label
    IN IF output = "html"
       THEN A_OPEN \o url \o A_MID \o display_text \o A_CLOSE
       ELSE display_text \o <<" ", "(">> \o url \o <<")">>

\* a substitution that loses the character that follows a match
RECURSIVE SubFromDropping(_, _, _)
SubFromDropping(s, pos, output) ==
    IF pos > Len(s) THEN [out |-> <<>>, subs |-> <<>>]
    ELSE
      LET m == MatchAt(s, pos)
      IN IF m.matched
         THEN LET r == replace_link(m.url, m.label, output)
                  rest == SubFromDropping(s, m.end + 2, output)
              IN [out |-> r \o rest.out,
                  subs |-> <<[start |-> m.start, end |-> m.end, url |-> m.url,
                              label |-> m.label, repl |-> r]>> \o rest.subs]
         ELSE LET rest == SubFromDropping(s, pos + 1, output)
              IN [out |-> <<s[pos]>> \o rest.out, subs |-> rest.subs]

\* link_pattern.sub(replace_link, text) from position pos on: the leftmost match is
\* replaced and the scan resumes after it; a character no match starts at is copied.
\* The result carries the output and the replace_link calls made.
RECURSIVE SubFrom(_, _, _)
SubFrom(s, pos, output) ==
    IF pos > Len(s) THEN [out |-> <<>>, subs |-> <<>>]
    ELSE
      LET m == MatchAt(s, pos)
      IN IF m.matched
         THEN LET r == replace_link(m.url, m.label, output)
                  rest == SubFrom(s, m.end + 1, output)
              IN [out |-> r \o rest.out,
                  subs |-> <<[start |-> m.start, end |-> m.end, url |-> m.url,
                              label |-> m.label, repl |-> r]>> \o rest.subs]
         ELSE LET rest == SubFrom(s, pos + 1, output)
              IN [out |-> <<s[pos]>> \o rest.out, subs |-> rest.subs]

parse_links(s, output) == SubFrom(s, 1, output)

(***************************************************************************)
(* The rewriter on its own: parse_links applied to a bounded set of texts  *)
(***************************************************************************)
MaxFrags == 4

\* The pieces the input texts are built from: the delimiters of the markup, an
\* ordinary character, the start of a link without and with a first url character
\* in both schemes, and a start that is almost a scheme.
Frags == { <<"<">>, <<">">>, <<"|">>, <<"a">>,
           <<"<", "h", "t", "t", "p", ":", "/", "/">>,
           <<"<", "h", "t", "t", "p", ":", "/", "/", "a">>,
           <<"<", "h", "t", "t", "p", "s", ":", "/", "/", "a">>,
           <<"<", "h", "t", "t", "p", ":", "/", "a">> }

Texts == { Flatten(fs) : fs \in UNION { [1..n -> Frags] : n \in 0..MaxFrags } }

LinkIdle == text = <<>> /\ mode = "none" /\ out = <<>> /\ subs = <<>>

ParseLinks(output) ==
    /\ mode = "none"
    /\ LET r == parse_links(text, output)
       IN /\ out' = r.out
          /\ subs' = r.subs
    /\ mode' = output
    /\ text' = text
    /\ UNCHANGED <<nameVars, cacheVars, mainVars>>

(***************************************************************************)
(* File and folder names                                                   *)
(***************************************************************************)
\* str.isalnum() on the characters the model uses
AlnumChars == { "a", "b", "c", "d", "e", "f", "g", "h", "i", "j", "k", "l", "m", "n", "o",
                "p", "q", "r", "s", "t", "u", "v", "w", "x", "y", "z",
                "A", "B", "C", "D", "E", "F", "G", "H", "I", "J", "K", "L", "M", "N", "O",
                "P", "Q", "R", "S", "T", "U", "V", "W", "X", "Y", "Z",
                "0", "1", "2", "3", "4", "5", "6", "7", "8", "9" }

\* str.rstrip() strips these
Whitespace == { " ", "\t", "\n", "\r" }

\* a filter that forgets the underscore
KeepCharNoUnderscore(c) == c \in AlnumChars \/ c \in { " ", "-" }

\* the condition of the list comprehension: c.isalnum() or c in (' ', '-', '_')
KeepChar(c) == c \in AlnumChars \/ c \in { " ", "-", "_" }

\* "".join([c for c in conversation_name if ...])
RECURSIVE JoinKept(_)
JoinKept(s) ==
    IF s = <<>> THEN <<>>
    ELSE (IF KeepChar(Head(s)) THEN <<Head(s)>> ELSE <<>>) \o JoinKept(Tail(s))

RECURSIVE rstrip(_)
rstrip(s) ==
    IF s = <<>> THEN <<>>
    ELSE IF s[Len(s)] \in Whitespace THEN rstrip(SubSeq(s, 1, Len(s) - 1))
    ELSE s

sanitized_conversation_name(conversation_name) == rstrip(JoinKept(conversation_name))

EXT_TXT == <<".", "t", "x", "t">>
EXT_HTML == <<".", "h", "t", "m", "l">>

Ext(output) == IF output = "html" THEN EXT_HTML ELSE EXT_TXT

\* f'{sanitized_conversation_name}.txt' / '.html'
FileName(conversation_name, output) ==
    sanitized_conversation_name(conversation_name) \o Ext(output)

\* workspace_name.replace(' ', '_')
workspace_folder(workspace_name) ==
    [k \in 1..Len(workspace_name) |->
        IF workspace_name[k] = " " THEN "_" ELSE workspace_name[k]]

\* os.path.join(workspace_folder, filename), filename never starting with '/'
PathJoin(folder, filename) ==
    IF folder = <<>> THEN filename
    ELSE IF folder[Len(folder)] = "/" THEN folder \o filename
    ELSE folder \o <<"/">> \o filename

MaxNameLen == 4

NameChars == { "a", "1", " ", "-", "_", "/", ":" }

Names == UNION { [1..n -> NameChars] : n \in 0..MaxNameLen }

NameIdle == name_in = <<>> /\ name_kind = "none" /\ name_out = <<>>

\* the file name save_messages_to_txt / save_messages_to_html computes
SaveFileName(output) ==
    /\ name_kind = "none"
    /\ name_out' = FileName(name_in, output)
    /\ name_kind' = output
    /\ name_in' = name_in
    /\ UNCHANGED <<linkVars, cacheVars, mainVars>>

(***************************************************************************)
(* The remote API: what a call can answer                                  *)
(***************************************************************************)
Users == { "U1", "U2" }
Threads == { "T1", "T2" }
NoThread == "-"

\* a SlackApiError raised by the call
ApiError == [ok |-> FALSE]

\* response['user'] of users_info
UserRecords == { [real_name |-> <<"A", "l">>, display_name |-> None, name |-> <<"a", "l">>],
                 [real_name |-> <<>>, display_name |-> None, name |-> <<"b", "o">>] }

UsersInfoOutcomes == { ApiError } \cup { [ok |-> TRUE, user |-> r] : r \in UserRecords }

\* a message of conversations_history / conversations_replies: the author, the
\* thread it belongs to (the key 'thread_ts' is absent when NoThread) and whether
\* it carries the key 'subtype'
MsgKinds == { [user |-> "U1", thread_ts |-> NoThread, subtype |-> FALSE],
              [user |-> "U2", thread_ts |-> "T1", subtype |-> FALSE],
              [user |-> "U2", thread_ts |-> NoThread, subtype |-> TRUE] }

MaxMsgs == 2

MsgLists == UNION { [1..n -> MsgKinds] : n \in 0..MaxMsgs }

\* the answers of conversations_history
MessagesOutcomes == { ApiError } \cup { [ok |-> TRUE, messages |-> ms] : ms \in MsgLists }

\* the answers of conversations_replies: the thread starter first, then the replies
ThreadLists == { <<>>,
                 <<[user |-> "U2", thread_ts |-> "T1", subtype |-> FALSE]>>,
                 <<[user |-> "U2", thread_ts |-> "T1", subtype |-> FALSE],
                   [user |-> "U2", thread_ts |-> NoThread, subtype |-> TRUE],
                   [user |-> "U1", thread_ts |-> "T1", subtype |-> FALSE]>>,
                 <<[user |-> "U2", thread_ts |-> "T1", subtype |-> FALSE],
                   [user |-> "U1", thread_ts |-> "T1", subtype |-> FALSE],
                   [user |-> "U2", thread_ts |-> "T1", subtype |-> FALSE]>> }
RepliesOutcomes == { ApiError } \cup { [ok |-> TRUE, messages |-> ms] : ms \in ThreadLists }

(***************************************************************************)
(* The caches                                                              *)
(***************************************************************************)
UNKNOWN_USER == <<"U", "n", "k", "n", "o", "w", "n", " ", "U", "s", "e", "r">>

\* Python's truth value of an optional string
Truthy(x) == x # None /\ x # <<>>

\* a or b
Or(a, b) == IF Truthy(a) THEN a ELSE b

\* [m for m in ms if 'subtype' not in m]
WithoutSubtype(ms) == SelectSeq(ms, LAMBDA m : ~m.subtype)

\* get_user_info(client, user_id), the answer of client.users_info being outcome
\* (not consulted on a cache hit).  called: users_info was issued; raised: an
\* exception left the function.
get_user_info(cache, user_id, outcome) ==
    IF user_id \in DOMAIN cache
    THEN [cache |-> cache, ret |-> cache[user_id], called |-> FALSE, failed |-> FALSE,
          raised |-> FALSE]
    ELSE IF outcome.ok
    THEN LET user == outcome.user
             user_name == Or(Or(user.real_name, user.display_name), user.name)
         IN [cache |-> [k \in DOMAIN cache \cup {user_id} |->
                            IF k = user_id THEN user_name ELSE cache[k]],
             ret |-> user_name, called |-> TRUE, failed |-> FALSE, raised |-> FALSE]
    ELSE [cache |-> cache, ret |-> UNKNOWN_USER, called |-> TRUE, failed |-> TRUE,
          raised |-> FALSE]

\* fetch_replies(client, channel_id, thread_ts), the answer of
\* client.conversations_replies being outcome
fetch_replies(cache, thread_ts, outcome) ==
    IF thread_ts \in DOMAIN cache
    THEN [cache |-> cache, ret |-> cache[thread_ts], called |-> FALSE, failed |-> FALSE,
          raised |-> FALSE]
    ELSE IF outcome.ok
    THEN LET replies == IF outcome.messages = <<>> THEN <<>> ELSE Tail(outcome.messages)
             user_replies == WithoutSubtype(replies)
         IN [cache |-> [k \in DOMAIN cache \cup {thread_ts} |->
                            IF k = thread_ts THEN user_replies ELSE cache[k]],
             ret |-> user_replies, called |-> TRUE, failed |-> FALSE, raised |-> FALSE]
    ELSE [cache |-> cache, ret |-> <<>>, called |-> TRUE, failed |-> TRUE,
          raised |-> FALSE]

EmptyCache == [k \in {} |-> <<>>]

\* the answers a lookup of key can get: the remote call is issued on a miss only
AnswersOnMiss(cache, key, outcomes) == IF key \in DOMAIN cache THEN { ApiError } ELSE outcomes

(***************************************************************************)
(* The caches on their own: any sequence of calls, from any client         *)
(***************************************************************************)
MaxTokens == 2
MaxLookups == 2

Clients == 1..MaxTokens
Keys == Users \cup Threads
NotYet == [seen |-> FALSE]

CacheIdle ==
    /\ user_cache = EmptyCache
    /\ message_cache = EmptyCache
    /\ calls = [k \in Keys |-> 0]
    /\ first_ret = [k \in Keys |-> NotYet]
    /\ last = [client |-> 0, key |-> NoThread, ret |-> <<>>]

Recorded(client, key, r) ==
    /\ calls' = [calls EXCEPT ![key] = @ + (IF r.called THEN 1 ELSE 0)]
    /\ first_ret' = [first_ret EXCEPT ![key] = IF @.seen THEN @ ELSE [seen |-> TRUE, ret |-> r.ret]]
    /\ last' = [client |-> client, key |-> key, ret |-> r.ret]

GetUserInfo(client, user_id, outcome) ==
    /\ calls[user_id] < MaxLookups
    /\ LET r == get_user_info(user_cache, user_id, outcome)
       IN /\ user_cache' = r.cache
          /\ Recorded(client, user_id, r)
    /\ UNCHANGED <<message_cache, linkVars, nameVars, mainVars>>

FetchReplies(client, thread_ts, outcome) ==
    /\ calls[thread_ts] < MaxLookups
    /\ LET r == fetch_replies(message_cache, thread_ts, outcome)
       IN /\ message_cache' = r.cache
          /\ Recorded(client, thread_ts, r)
    /\ UNCHANGED <<user_cache, linkVars, nameVars, mainVars>>

(***************************************************************************)
(* The functions of main that call the remote API.  Each takes the answer  *)
(* of its remote call(s) and gives: ret, what it returns; failed, whether  *)
(* a remote call failed; raised, whether an exception left the function    *)
(* (every remote call is inside a try that catches SlackApiError).         *)
(***************************************************************************)
DEFAULT_WORKSPACE == <<"d", "e", "f", "a", "u", "l", "t", "_",
                       "w", "o", "r", "k", "s", "p", "a", "c", "e">>

\* response['team']['name'] of team_info
WorkspaceNames == { <<"A", " ", "/", "B">> }

TeamInfoOutcomes == { ApiError } \cup { [ok |-> TRUE, name |-> n] : n \in WorkspaceNames }

CHAN_GEN == [id |-> <<"C", "1">>, name |-> <<"g", "e", "n">>, is_im |-> FALSE,
             is_mpim |-> FALSE, user |-> NoThread]
CHAN_DEV == [id |-> <<"C", "2">>, name |-> <<"d", "e", "v">>, is_im |-> FALSE,
             is_mpim |-> FALSE, user |-> NoThread]
DM_U1 == [id |-> <<"D", "1">>, name |-> None, is_im |-> TRUE,
          is_mpim |-> FALSE, user |-> "U1"]
\* Python's None where a conversation is expected
NoConversation == [id |-> None, name |-> None, is_im |-> FALSE,
                   is_mpim |-> FALSE, user |-> NoThread]

Conversations == { CHAN_GEN, CHAN_DEV, DM_U1 }

\* response['channels'] of conversations_list
ChannelLists == { <<>>, <<CHAN_GEN>>, <<CHAN_DEV, CHAN_GEN>> }
ListOutcomes == { ApiError } \cup { [ok |-> TRUE, channels |-> cl] : cl \in ChannelLists }
\* the answers to the listings of fetch_conversations (channels, ims, mpims), whose
\* result main never reads: each listing is issued only when the one before answered
ListingOutcomes ==
    LET listed == [ok |-> TRUE, channels |-> <<CHAN_GEN>>]
    IN { <<ApiError>>, <<listed, ApiError>>, <<listed, listed, ApiError>>,
         <<listed, listed, listed>> }

\* conversations_info(channel=id) answers with the conversation of that id, or fails
InfoOutcomes(channel_id) ==
    { ApiError } \cup { [ok |-> TRUE, channel |-> c] : c \in { x \in Conversations : x.id = channel_id } }

\* args.channel_name_or_id: absent, the id of no conversation, the id of a
\* direct message, a name
ChannelArgs == { None, <<"C", "9">>, <<"D", "1">>, <<"g", "e", "n">> }

get_workspace_name(outcome) ==
    IF outcome.ok
    THEN [ret |-> outcome.name, failed |-> FALSE, raised |-> FALSE]
    ELSE [ret |-> DEFAULT_WORKSPACE, failed |-> TRUE, raised |-> FALSE]

\* fetch_conversations(client): three conversations_list calls (channels, ims,
\* mpims), outcomes[k] the answer of the k-th; the first failure ends the function.
fetch_conversations(outcomes) ==
    IF \A k \in 1..Len(outcomes) : outcomes[k].ok
    THEN [ret |-> outcomes[1].channels \o outcomes[2].channels \o outcomes[3].channels,
          failed |-> FALSE, raised |-> FALSE]
    ELSE [ret |-> <<>>, failed |-> TRUE, raised |-> FALSE]

fetch_channel_by_id(outcome) ==
    IF outcome.ok
    THEN [ret |-> outcome.channel, failed |-> FALSE, raised |-> FALSE]
    ELSE [ret |-> NoConversation, failed |-> TRUE, raised |-> FALSE]

\* the first channel of the list whose name is channel_name, None when there is none
RECURSIVE FirstNamed(_, _)
FirstNamed(channels, channel_name) ==
    IF channels = <<>> THEN NoConversation
    ELSE IF Head(channels).name = channel_name THEN Head(channels)
    ELSE FirstNamed(Tail(channels), channel_name)

fetch_channel_by_name(outcome, channel_name) ==
    IF outcome.ok
    THEN [ret |-> FirstNamed(outcome.channels, channel_name), failed |-> FALSE,
          raised |-> FALSE]
    ELSE [ret |-> NoConversation, failed |-> TRUE, raised |-> FALSE]

\* fetch_channel_messages without its except clause
fetch_channel_messages_Uncaught(outcome) ==
    IF outcome.ok
    THEN [ret |-> WithoutSubtype(outcome.messages), failed |-> FALSE, raised |-> FALSE]
    ELSE [ret |-> <<>>, failed |-> TRUE, raised |-> TRUE]

\* fetch_channel_messages(client, channel_id): the messages without a subtype
fetch_channel_messages(outcome) ==
    IF outcome.ok
    THEN [ret |-> WithoutSubtype(outcome.messages), failed |-> FALSE, raised |-> FALSE]
    ELSE [ret |-> <<>>, failed |-> TRUE, raised |-> FALSE]

DM_WITH == <<"D", "M", " ", "w", "i", "t", "h", " ">>

\* get_conversation_name(client, conversation): a direct message is named after
\* the other user, through get_user_info
get_conversation_name(cache, conversation, outcome) ==
    IF conversation.is_im
    THEN LET r == get_user_info(cache, conversation.user, outcome)
         IN [r EXCEPT !.ret = DM_WITH \o r.ret]
    ELSE IF conversation.is_mpim
    THEN [cache |-> cache, ret |-> conversation.name, called |-> FALSE, failed |-> FALSE,
          raised |-> FALSE]
    ELSE [cache |-> cache, ret |-> conversation.name, called |-> FALSE, failed |-> FALSE,
          raised |-> FALSE]

\* list(reversed(messages))
Reversed(s) == [k \in 1..Len(s) |-> s[Len(s) + 1 - k]]

(***************************************************************************)
(* main                                                                    *)
(***************************************************************************)
NO_TOKENS == "No Slack tokens found in .env file."
NOT_FOUND == "Channel not found in any workspaces."
NO_MESSAGES == "No messages found for channel."

\* the answers of users_info during a run of main
MainUsersInfoOutcomes ==
    { ApiError,
      [ok |-> TRUE, user |-> [real_name |-> <<>>, display_name |-> None, name |-> <<"b", "o">>]] }

NoFailures == [team_info |-> {}, conversations_list |-> {}, lookup |-> {},
               users_info |-> {}, history |-> {}, replies |-> {}]

\* what a function returned, when its remote call failed
Rets(r) == IF r.failed THEN {r.ret} ELSE {}

\* get_slack_tokens(): the environment variables named *_TOKEN, n of them
get_slack_tokens(n) == [i \in 1..n |-> i]

NoExport == [empty |-> FALSE, saved |-> "none", folder |-> <<>>, path |-> <<>>]

MainIdle ==
    /\ pc = "idle"
    /\ tokens = <<>>
    /\ channel_arg = None
    /\ output_type = "txt"
    /\ idx = 0
    /\ found_channels = <<>>
    /\ messages = <<>>
    /\ cur_file = <<>>
    /\ files = EmptyCache
    /\ opens = 0
    /\ last_export = NoExport
    /\ printed = {}
    /\ invoked = {}
    /\ failed = NoFailures

\* an exception nothing catches ends the run
Crash ==
    /\ pc' = "crashed"
    /\ UNCHANGED <<tokens, channel_arg, output_type, idx, found_channels, messages,
                   cur_file, files, opens, last_export, printed, invoked, failed,
                   user_cache, message_cache>>

\* a main that does not test the tokens
NoTokensNever(toks) == FALSE

\* if not tokens
NoTokens(toks) == toks = <<>>

\* lines 241-246: the tokens are read; without any, main prints and returns
MainStart ==
    /\ pc = "start"
    /\ IF NoTokens(tokens)
       THEN /\ printed' = printed \cup {NO_TOKENS}
            /\ pc' = "done"
       ELSE /\ printed' = printed
            /\ pc' = "scan"
    /\ idx' = 1
    /\ found_channels' = <<>>
    /\ UNCHANGED <<tokens, channel_arg, output_type, messages, cur_file, files, opens, last_export,
                   invoked, failed, linkVars, nameVars, cacheVars>>

\* args.channel_name_or_id.startswith('C') or .startswith('D')
LooksLikeId(arg) == StartsWithAt(arg, 1, <<"C">>) \/ StartsWithAt(arg, 1, <<"D">>)

NotLookedUp == [ret |-> NoConversation, failed |-> FALSE, raised |-> FALSE, op |-> {}]

\* lines 258-265: the results the lookup of the channel argument can have
Lookups(arg) ==
    IF ~Truthy(arg) THEN { NotLookedUp }
    ELSE IF LooksLikeId(arg)
    THEN { [ret |-> r.ret, failed |-> r.failed, raised |-> r.raised,
            op |-> {"conversations_info"}] :
           r \in { fetch_channel_by_id(o) : o \in InfoOutcomes(arg) } }
    ELSE { [ret |-> r.ret, failed |-> r.failed, raised |-> r.raised,
            op |-> {"conversations_list"}] :
           r \in { fetch_channel_by_name(o, arg) : o \in ListOutcomes } }

\* the get_user_info call get_conversation_name makes for a direct message
NameLookup(cache, conversation, outcome) ==
    IF conversation.is_im
    THEN get_user_info(cache, conversation.user, outcome)
    ELSE [cache |-> cache, ret |-> <<>>, called |-> FALSE, failed |-> FALSE,
          raised |-> FALSE]

\* lines 249-275: one iteration of the scan over the credentials
ScanWorkspace ==
    /\ pc = "scan"
    /\ idx <= Len(tokens)
    /\ \E o_team \in TeamInfoOutcomes, o_convs \in ListingOutcomes,
          lk \in Lookups(channel_arg) :
       \E o_user \in (IF lk.ret.is_im
                       THEN AnswersOnMiss(user_cache, lk.ret.user, MainUsersInfoOutcomes)
                       ELSE { ApiError }) :
         \E ws \in { get_workspace_name(o_team) },
            cv \in { fetch_conversations(o_convs) },
            conversation \in { lk.ret },
            found \in { lk.ret # NoConversation },
            ul \in { NameLookup(user_cache, lk.ret, o_user) } :
            IF ws.raised \/ cv.raised \/ lk.raised \/ ul.raised THEN Crash
            ELSE
              /\ found_channels' =
                    IF found
                    THEN Append(found_channels,
                                [client |-> tokens[idx], conversation |-> conversation,
                                 workspace_name |-> ws.ret])
                    ELSE found_channels
              /\ user_cache' = ul.cache
              /\ invoked' = invoked \cup {"team_info", "conversations_list"} \cup lk.op
                               \cup (IF ul.called THEN {"users_info"} ELSE {})
              /\ failed' = [team_info |-> Rets(ws), conversations_list |-> Rets(cv),
                             lookup |-> Rets(lk), users_info |-> Rets(ul),
                             history |-> {}, replies |-> {}]
              /\ idx' = idx + 1
              /\ UNCHANGED <<pc, tokens, channel_arg, output_type, messages, cur_file,
                             files, opens, last_export, printed, message_cache>>
    /\ UNCHANGED <<linkVars, nameVars, calls, first_ret, last>>

\* if not found_channels
NothingFound(fc) == fc = <<>>

\* lines 277-279: after the scan
ScanDone ==
    /\ pc = "scan"
    /\ idx > Len(tokens)
    /\ IF NothingFound(found_channels)
       THEN /\ printed' = printed \cup {NOT_FOUND}
            /\ pc' = "done"
       ELSE /\ printed' = printed
            /\ pc' = "export"
    /\ idx' = 1
    /\ UNCHANGED <<tokens, channel_arg, output_type, found_channels, messages, cur_file,
                   files, opens, last_export, invoked, failed, linkVars, nameVars, cacheVars>>

\* a main that saves whatever the history holds
ShouldSaveAlways(msgs) == TRUE

\* if messages
ShouldSave(msgs) == msgs # <<>>

\* open(filename, 'w'): the file is created or truncated
Opened(fs, path, export) ==
    [p \in DOMAIN fs \cup {path} |->
        IF p = path THEN export ELSE fs[p]]

\* lines 282-301 up to the first message: the name and the history are fetched
\* and, with messages, the save routine opens its file
ExportChannel ==
    /\ pc = "export"
    /\ idx <= Len(found_channels)
    /\ \E o_user \in (IF found_channels[idx].conversation.is_im
                       THEN AnswersOnMiss(user_cache, found_channels[idx].conversation.user,
                                          MainUsersInfoOutcomes)
                       ELSE { ApiError }),
          o_hist \in MessagesOutcomes :
         \E ul \in { NameLookup(user_cache, found_channels[idx].conversation, o_user) },
            conversation_name \in
                { get_conversation_name(user_cache, found_channels[idx].conversation, o_user).ret },
            hist \in { fetch_channel_messages(o_hist) },
            folder \in { workspace_folder(found_channels[idx].workspace_name) } :
          \E msgs \in { Reversed(hist.ret) },
             path \in { PathJoin(folder, FileName(conversation_name, output_type)) } :
            IF ul.raised \/ hist.raised THEN Crash
            ELSE
              /\ user_cache' = ul.cache
              /\ invoked' = invoked \cup {"conversations_history"}
                               \cup (IF ul.called THEN {"users_info"} ELSE {})
              /\ failed' = [NoFailures EXCEPT !.users_info = Rets(ul),
                                              !.history = Rets(hist)]
              /\ IF ShouldSave(msgs)
                 THEN /\ files' = Opened(files, path, idx)
                      /\ opens' = opens + 1
                      /\ last_export' = [empty |-> msgs = <<>>, saved |-> output_type,
                                          folder |-> folder, path |-> path]
                      /\ printed' = printed
                      /\ IF msgs = <<>>
                         THEN /\ pc' = "export"
                              /\ idx' = idx + 1
                              /\ cur_file' = <<>>
                         ELSE /\ pc' = "save"
                              /\ idx' = idx
                              /\ cur_file' = path
                 ELSE /\ files' = files
                      /\ opens' = opens
                      /\ last_export' = [empty |-> msgs = <<>>, saved |-> "none",
                                          folder |-> folder, path |-> <<>>]
                      /\ printed' = printed \cup {NO_MESSAGES}
                      /\ pc' = "export"
                      /\ idx' = idx + 1
                      /\ cur_file' = <<>>
              /\ messages' = msgs
              /\ UNCHANGED <<tokens, channel_arg, output_type, found_channels,
                             message_cache>>
    /\ UNCHANGED <<linkVars, nameVars, calls, first_ret, last>>

\* get_user_info for each of the users in turn, outcomes[k] the answer for the k-th
RECURSIVE LookupAll(_, _, _)
LookupAll(cache, users, outcomes) ==
    IF users = <<>>
    THEN [cache |-> cache, rets |-> {}, called |-> FALSE, raised |-> FALSE]
    ELSE LET r == get_user_info(cache, Head(users), Head(outcomes))
             rest == LookupAll(r.cache, Tail(users), Tail(outcomes))
         IN [cache |-> rest.cache, rets |-> Rets(r) \cup rest.rets,
             called |-> r.called \/ rest.called, raised |-> r.raised \/ rest.raised]

\* lines 173-198 / 212-236: one message of the save routine is written, with its
\* replies; after the last one the file is closed and main goes on
SaveMessage ==
    /\ pc = "save"
    /\ messages # <<>>
    /\ \E o_user \in AnswersOnMiss(user_cache, Head(messages).user, MainUsersInfoOutcomes),
          o_replies \in (IF Head(messages).thread_ts = NoThread THEN { ApiError }
                         ELSE AnswersOnMiss(message_cache, Head(messages).thread_ts,
                                            RepliesOutcomes)) :
         \E author \in { get_user_info(user_cache, Head(messages).user, o_user) },
            rp \in { IF Head(messages).thread_ts # NoThread
                     THEN fetch_replies(message_cache, Head(messages).thread_ts, o_replies)
                     ELSE [cache |-> message_cache, ret |-> <<>>, called |-> FALSE,
                           failed |-> FALSE, raised |-> FALSE] } :
           \E os \in [1..Len(rp.ret) -> MainUsersInfoOutcomes] :
            \E ra \in { LookupAll(author.cache, [k \in 1..Len(rp.ret) |-> rp.ret[k].user], os) } :
                 IF author.raised \/ rp.raised \/ ra.raised THEN Crash
                 ELSE
                   /\ user_cache' = ra.cache
                   /\ message_cache' = rp.cache
                   /\ invoked' = invoked
                         \cup (IF author.called \/ ra.called THEN {"users_info"} ELSE {})
                         \cup (IF rp.called THEN {"conversations_replies"} ELSE {})
                   /\ failed' = [NoFailures EXCEPT
                                    !.users_info = Rets(author) \cup ra.rets,
                                    !.replies = Rets(rp)]
                   /\ files' = files
                   /\ messages' = Tail(messages)
                   /\ IF Tail(messages) = <<>>
                      THEN /\ pc' = "export"
                           /\ idx' = idx + 1
                           /\ cur_file' = <<>>
                      ELSE /\ pc' = "save"
                           /\ idx' = idx
                           /\ cur_file' = cur_file
                   /\ UNCHANGED <<tokens, channel_arg, output_type, found_channels,
                                  opens, last_export, printed>>
    /\ UNCHANGED <<linkVars, nameVars, calls, first_ret, last>>

\* the loop over found_channels is over: main returns
ExportDone ==
    /\ pc = "export"
    /\ idx > Len(found_channels)
    /\ pc' = "done"
    /\ UNCHANGED <<tokens, channel_arg, output_type, idx, found_channels, messages,
                   cur_file, files, opens, last_export, printed, invoked, failed,
                   linkVars, nameVars, cacheVars>>

(***************************************************************************)
(* Specifications                                                          *)
(***************************************************************************)
Modes == { "txt", "html" }

\* parse_links on every text of Texts, in both modes
InitLinks == text \in Texts /\ mode = "none" /\ out = <<>> /\ subs = <<>>
               /\ NameIdle /\ CacheIdle /\ MainIdle
NextLinks == \E output \in Modes : ParseLinks(output)
SpecLinks == InitLinks /\ [][NextLinks]_vars

\* the file name of both save routines on every name of Names
InitNames == name_in \in Names /\ name_kind = "none" /\ name_out = <<>>
               /\ LinkIdle /\ CacheIdle /\ MainIdle
NextNames == \E output \in Modes : SaveFileName(output)
SpecNames == InitNames /\ [][NextNames]_vars

\* the two caches under any sequence of calls
InitCache == CacheIdle /\ LinkIdle /\ NameIdle /\ MainIdle
NextCache ==
    \/ \E c \in Clients, u \in Users, o \in UsersInfoOutcomes : GetUserInfo(c, u, o)
    \/ \E c \in Clients, t \in Threads, o \in RepliesOutcomes : FetchReplies(c, t, o)
SpecCache == InitCache /\ [][NextCache]_vars

\* one run of main
Init ==
    /\ LinkIdle /\ NameIdle /\ CacheIdle
    /\ pc = "start"
    /\ tokens \in { get_slack_tokens(n) : n \in 0..MaxTokens }
    /\ channel_arg \in ChannelArgs
    /\ output_type \in Modes
    /\ idx = 0
    /\ found_channels = <<>>
    /\ messages = <<>>
    /\ cur_file = <<>>
    /\ files = EmptyCache
    /\ opens = 0
    /\ last_export = NoExport
    /\ printed = {}
    /\ invoked = {}
    /\ failed = NoFailures
Next ==
    \/ MainStart
    \/ ScanWorkspace
    \/ ScanDone
    \/ ExportChannel
    \/ SaveMessage
    \/ ExportDone
Spec == Init /\ [][Next]_vars

(***************************************************************************)
(* What the checks below need to say                                       *)
(***************************************************************************)
\* the characters a sanitized name may hold: alphanumerics, space, hyphen, underscore
AllowedNameChars == AlnumChars \cup { " ", "-", "_" }

\* the characters of s that are in AllowedNameChars, in order
OnlyAllowed(s) == SelectSeq(s, LAMBDA c : c \in AllowedNameChars)

\* s without its extension e
Stem(s, e) == SubSeq(s, 1, Len(s) - Len(e))

\* the longest prefix of s that does not end with a space
WithoutTrailingSpaces(s) ==
    LET ends == { n \in 0..Len(s) : n = 0 \/ s[n] # " " }
        n == CHOOSE m \in ends : \A k \in ends : k <= m
    IN SubSeq(s, 1, n)

\* C9 as stated: the file name before its extension is the conversation name with
\* every character other than alphanumerics, space, hyphen and underscore removed.
C9_FileNameIsFilteredName ==
    name_kind # "none" => Stem(name_out, Ext(name_kind)) = OnlyAllowed(name_in)

\* C9 amended: the file name before its extension is the conversation name with every
\* character other than alphanumerics, space, hyphen and underscore removed, the
\* rest kept in order, and the trailing spaces then stripped; it ends with the
\* extension of the format and holds no other character.
C9_FileNameIsFilteredStrippedName ==
    name_kind # "none" =>
        /\ name_out = WithoutTrailingSpaces(OnlyAllowed(name_in)) \o Ext(name_kind)
        /\ \A k \in 1..Len(Stem(name_out, Ext(name_kind))) :
               Stem(name_out, Ext(name_kind))[k] \in AllowedNameChars

\* a name whose filtered form ends with a space and has forbidden characters
C9_Witness ==
    /\ name_kind = "html"
    /\ name_in = <<"a", "/", " ", ":">>
    /\ name_out = <<"a">> \o EXT_HTML

\* u is a url of the markup: http:// or https://, then at least one character,
\* none of them '|' or '>'
IsLinkUrl(u) ==
    /\ \/ StartsWithAt(u, 1, HTTP \o COLON_SLASHES) /\ Len(u) > 7
       \/ StartsWithAt(u, 1, HTTP \o <<"s">> \o COLON_SLASHES) /\ Len(u) > 8
    /\ \A k \in 1..Len(u) : u[k] \notin { BAR, GT }

\* s[i..j] is '<' url '>' or '<' url '|' label '>', the url ending at k and the
\* label holding no '>'
IsLinkSpanWithUrlEnd(s, i, j, k) ==
    /\ i < k /\ k < j
    /\ s[i] = LT /\ s[j] = GT
    /\ IsLinkUrl(Slice(s, i + 1, k))
    /\ \/ k = j - 1
       \/ s[k + 1] = BAR /\ \A p \in (k + 2)..(j - 1) : s[p] # GT

IsLinkSpan(s, i, j) == \E k \in (i + 1)..(j - 1) : IsLinkSpanWithUrlEnd(s, i, j, k)

\* every occurrence of the markup in s
LinkSpans(s) ==
    { ij \in { i \in 1..Len(s) : s[i] = LT } \X { j \in 1..Len(s) : s[j] = GT } :
        IsLinkSpan(s, ij[1], ij[2]) }

UrlEnd(s, i, j) == CHOOSE k \in (i + 1)..(j - 1) : IsLinkSpanWithUrlEnd(s, i, j, k)
UrlOf(s, i, j) == Slice(s, i + 1, UrlEnd(s, i, j))
HasLabel(s, i, j) == UrlEnd(s, i, j) < j - 1
LabelOf(s, i, j) == Slice(s, UrlEnd(s, i, j) + 2, j - 1)

\* s with the spans of rs (in order, from position pos on) replaced by their repl
RECURSIVE Spliced(_, _, _)
Spliced(s, rs, pos) ==
    IF rs = <<>> THEN Slice(s, pos, Len(s))
    ELSE Slice(s, pos, Head(rs).start - 1) \o Head(rs).repl
           \o Spliced(s, Tail(rs), Head(rs).end + 1)

\* C4: parse_links replaces the non-overlapping occurrences of the markup, taken
\* from left to right, and keeps every character outside them in its place and
\* order; a text without markup is returned unchanged.
C4_TextOutsideMatchesKept ==
    mode # "none" =>
        /\ \A k \in 1..Len(subs) :
              /\ IsLinkSpan(text, subs[k].start, subs[k].end)
              /\ k < Len(subs) => subs[k].end < subs[k + 1].start
        /\ \A ij \in LinkSpans(text) :
              \E k \in 1..Len(subs) : subs[k].start <= ij[1] /\ ij[1] <= subs[k].end
        /\ out = Spliced(text, subs, 1)
        /\ (LinkSpans(text) = {} => out = text)

\* 'a<http://a>a' in plain mode: the characters around the link are kept
C4_Witness ==
    /\ mode = "txt"
    /\ text = <<"a", "<", "h", "t", "t", "p", ":", "/", "/", "a", ">", "a">>
    /\ Len(subs) = 1
    /\ out = <<"a", "h", "t", "t", "p", ":", "/", "/", "a", " ", "(",
               "h", "t", "t", "p", ":", "/", "/", "a", ")", "a">>

\* C5: every match is replaced by 'display (url)' in plain mode and by an anchor
\* with the url as target and the display text as content in markup mode, the
\* display text being the label when there is a non-empty one and the url
\* otherwise; the url starts with http:// or https://, and the match holds no '>'
\* before its last character.
C5_ReplacementFormat ==
    mode # "none" =>
        \A k \in 1..Len(subs) :
            LET i == subs[k].start
                j == subs[k].end
            IN /\ IsLinkSpan(text, i, j)
               /\ LET url == UrlOf(text, i, j)
                      display == IF HasLabel(text, i, j) /\ LabelOf(text, i, j) # <<>>
                                 THEN LabelOf(text, i, j) ELSE url
                  IN /\ mode = "txt" =>
                          subs[k].repl = display \o <<" ", "(">> \o url \o <<")">>
                     /\ mode = "html" =>
                          subs[k].repl = <<"<", "a", " ", "h", "r", "e", "f", "=", "\"">> \o url
                                           \o <<"\"", ">">> \o display \o <<"<", "/", "a", ">">>
                     /\ \/ StartsWithAt(url, 1, <<"h", "t", "t", "p", ":", "/", "/">>)
                        \/ StartsWithAt(url, 1, <<"h", "t", "t", "p", "s", ":", "/", "/">>)
               /\ \A p \in i..(j - 1) : text[p] # GT

\* '<https://a|a>' in markup mode
C5_Witness ==
    /\ mode = "html"
    /\ text = <<"<", "h", "t", "t", "p", "s", ":", "/", "/", "a", "|", "a", ">">>
    /\ out = <<"<", "a", " ", "h", "r", "e", "f", "=", "\"",
               "h", "t", "t", "p", "s", ":", "/", "/", "a", "\"", ">", "a", "<", "/", "a", ">">>

\* C1 as stated: for every key (user id, thread timestamp) at most one remote
\* lookup is issued in a run.
C1_AtMostOneLookupPerKey == \A k \in Keys : calls[k] <= 1

\* C2 as stated: every call for a key returns what the first call for that key
\* returned.
C2_LaterCallsReturnFirstValue ==
    last.key \in Keys => last.ret = first_ret[last.key].ret

\* C3: no failure of a remote call ends the run: the function whose call failed
\* returned its placeholder ("Unknown User", "default_workspace", an empty list,
\* no conversation), no exception left it, and main has a next step until it
\* has returned.
C3_FailuresNeverFatal ==
    /\ pc # "crashed"
    /\ failed.users_info \subseteq { UNKNOWN_USER }
    /\ failed.team_info \subseteq { DEFAULT_WORKSPACE }
    /\ failed.conversations_list \subseteq { <<>> }
    /\ failed.lookup \subseteq { NoConversation }
    /\ failed.history \subseteq { <<>> }
    /\ failed.replies \subseteq { <<>> }
    /\ pc # "done" => ENABLED Next

\* main has returned after a first export that wrote its file and a second one
\* whose history call failed
C3_Witness ==
    /\ pc = "done"
    /\ opens = 1
    /\ Len(found_channels) = 2
    /\ failed.history = { <<>> }

\* C6: for a conversation without messages neither save routine is called and no
\* file is opened, in both formats; files come from the save routines only.
C6_NoFileForEmptyConversation ==
    /\ last_export.empty => last_export.saved = "none" /\ last_export.path = <<>>
    /\ last_export.empty => pc # "save" /\ cur_file = <<>>
    /\ Cardinality(DOMAIN files) <= opens

\* the history call succeeded and left no user message; main has returned
\* without having opened a file
C6_Witness ==
    /\ pc = "done"
    /\ output_type = "html"
    /\ last_export.empty
    /\ "conversations_history" \in invoked
    /\ failed.history = {}
    /\ opens = 0

\* C7 as stated: when main has returned there is one distinct file for every
\* found conversation that had a message: no export overwrote the file of another.
C7_OneFilePerMatchedWorkspace ==
    pc = "done" => Cardinality(DOMAIN files) = opens

\* C8: without a credential main prints its diagnostic and returns before any
\* remote call or file; without a channel argument no history is fetched, no file
\* is written and main returns saying the channel was not found.
C8_MissingConfigurationStops ==
    /\ tokens = <<>> =>
          /\ invoked = {} /\ DOMAIN files = {} /\ opens = 0
          /\ pc \in { "start", "done" }
          /\ pc = "done" => printed = { NO_TOKENS }
    /\ (tokens # <<>> /\ channel_arg = None) =>
          /\ "conversations_history" \notin invoked /\ DOMAIN files = {} /\ opens = 0
          /\ pc \in { "start", "scan", "done" }
          /\ pc = "done" => printed = { NOT_FOUND }

\* credentials but no channel argument: the workspaces were scanned and main
\* has returned
C8_Witness ==
    /\ pc = "done"
    /\ tokens # <<>>
    /\ channel_arg = None
    /\ "team_info" \in invoked
    /\ printed = { NOT_FOUND }

\* C10 as stated: the folder main passes to the save routines holds only
\* alphanumerics, spaces, hyphens and underscores.
C10_FolderIsSanitized ==
    last_export.saved # "none" =>
        \A k \in 1..Len(last_export.folder) : last_export.folder[k] \in AllowedNameChars

====
